---- MODULE Spec2Model ----
(***************************************************************************)
(* Model of area_monitor.py: a poller thread publishes snapshots of the    *)
(* area registry file to update_queue, an updater thread reconciles the    *)
(* sqlite table "area" with each dequeued snapshot, and main() performs an *)
(* initial sync after starting both threads.                               *)
(***************************************************************************)
EXTENDS Integers, Sequences, FiniteSets, TLC

\* ---------------------------------------------------------------- bounds
\* number of times the external writer rewrites the registry file
MaxWrites == 1
\* number of snapshots handed to the reconciler in SpecApply
MaxPlan == 2

\* ------------------------------------------------------- python values
\* Python's None where a string is expected (a NULL column)
None == "<None>"
\* last_modified_time = None
NoTime == -1

\* tagged JSON values: k is the JSON type, v the payload
JArr(s) == [k |-> "arr", v |-> s]
JObj(m) == [k |-> "obj", v |-> m]
JNull == [k |-> "null", v |-> <<>>]
\* a local variable that has not been assigned yet
Unset == [k |-> "unset", v |-> <<>>]
\* the registry file is missing / holds text that is not JSON
Absent == [k |-> "absent", v |-> <<>>]
Garbage == [k |-> "garbage", v |-> <<>>]

\* dict.get(key, default)
Get(m, key, default) == IF key \in DOMAIN m THEN m[key] ELSE default

\* json.dumps of a list of strings
RECURSIVE DumpItems(_)
DumpItems(s) ==
    IF s = <<>> THEN ""
    ELSE IF Len(s) = 1 THEN "\"" \o s[1] \o "\""
    ELSE "\"" \o s[1] \o "\", " \o DumpItems(Tail(s))

Dumps(s) == "[" \o DumpItems(s) \o "]"

\* data = json.load(file); areas = data.get('data', {}).get('areas', [])
ReadAreas(content) ==
    IF content.k = "absent" THEN [ok |-> FALSE, exc |-> "FileNotFoundError", areas |-> Unset]
    ELSE IF content.k = "garbage" THEN [ok |-> FALSE, exc |-> "JSONDecodeError", areas |-> Unset]
    ELSE IF content.k # "obj" THEN [ok |-> FALSE, exc |-> "AttributeError", areas |-> Unset]
    ELSE LET d == Get(content.v, "data", JObj(<<>>)) IN
         IF d.k # "obj" THEN [ok |-> FALSE, exc |-> "AttributeError", areas |-> Unset]
         ELSE [ok |-> TRUE, exc |-> "none", areas |-> Get(d.v, "areas", JArr(<<>>))]

\* ------------------------------------------------ reconciliation helpers
\* what "for area in area_data" iterates over; a non-list raises TypeError
Iterable(area_data) == area_data.k = "arr" \/ (area_data.k = "obj" /\ DOMAIN area_data.v = {})
Items(area_data) == IF area_data.k = "arr" THEN area_data.v ELSE <<>>

\* area['id'] is defined for every record of the snapshot
HasIds(area_data) == \A i \in 1..Len(Items(area_data)) : "id" \in DOMAIN Items(area_data)[i]

\* current_ids = {area['id'] for area in area_data}
CurrentIds(area_data) == {Items(area_data)[i].id : i \in 1..Len(Items(area_data))}

\* the parameter tuple of INSERT OR REPLACE for one record
RowOf(area) ==
    [id |-> area.id,
     name |-> area.name,
     floor_id |-> Get(area, "floor_id", None),
     icon |-> Get(area, "icon", None),
     picture |-> Get(area, "picture", None),
     created_at |-> Get(area, "created_at", None),
     modified_at |-> Get(area, "modified_at", None),
     aliases |-> Dumps(Get(area, "aliases", <<>>)),
     labels |-> Dumps(Get(area, "labels", <<>>))]

\* a DELETE whose WHERE clause matches nothing
DeleteRowNoMatch(table, id) == table

\* DELETE FROM area WHERE id = ?
DeleteRow(table, id) == [x \in DOMAIN table \ {id} |-> table[x]]

\* INSERT OR IGNORE: a row whose id the table already holds is skipped
InsertOrIgnore(table, row) ==
    [x \in DOMAIN table \cup {row.id} |-> IF x \in DOMAIN table THEN table[x] ELSE row]

\* INSERT OR REPLACE INTO area ... keyed by the primary key id
InsertOrReplace(table, row) ==
    [x \in DOMAIN table \cup {row.id} |-> IF x = row.id THEN row ELSE table[x]]

\* a plain INSERT, which also fails on an id the table already holds
UpsertErrorPlainInsert(table, area) ==
    IF "name" \notin DOMAIN area THEN "KeyError"
    ELSE IF area.name = None \/ area.id \in DOMAIN table THEN "IntegrityError"
    ELSE "none"

\* the exception the upsert of one record raises, "none" when it succeeds:
\* area['name'] needs the key, and the name column is NOT NULL
UpsertError(table, area) ==
    IF "name" \notin DOMAIN area THEN "KeyError"
    ELSE IF area.name = None THEN "IntegrityError"
    ELSE "none"

\* the difference taken the wrong way round
ToDeleteSwapped(existing, current) == current \ existing

\* the set difference the delete loop iterates over
ToDelete(existing, current) == existing \ current

\* the empty table
EmptyTable == <<>>

\* a failure path that commits what was executed so far
RolledBackPartly(committed, pending) == pending

\* the committed table after a call that raised: the connection is dropped
\* without commit, so sqlite rolls the pending statements back
RolledBack(committed, pending) == committed

\* a commit that loses the pending statements
CommitDropped(committed, pending) == committed

\* the committed table after conn.commit()
Committed(committed, pending) == pending

\* ------------------------------------------------------------ environment
\* the modified_at text the registry writer stamps on the records of its
\* v-th version of the file
TimeStr(v) == "t" \o ToString(v)

AreaA(v) == [id |-> "A", name |-> "Kitchen", aliases |-> <<>>, labels |-> <<"wet">>,
             modified_at |-> TimeStr(v)]
AreaB(v) == [id |-> "B", name |-> "Hall", icon |-> "mdi:sofa", modified_at |-> TimeStr(v)]
AreaC(v) == [id |-> "C", name |-> "Garage", floor_id |-> "ground", aliases |-> <<"shop">>,
             labels |-> <<>>, modified_at |-> TimeStr(v)]
\* a record without the required name
AreaNoName(v) == [id |-> "C", modified_at |-> TimeStr(v)]

\* the registry document around a list of records
Doc(records) == JObj([data |-> JObj([areas |-> JArr(records)])])

\* well-formed registry documents of the file's v-th version (SpecLive)
GoodContents(v) == {Doc(<<AreaA(v)>>), Doc(<<AreaC(v)>>)}

\* what the file can hold after its v-th version was written (Spec): a
\* registry document, one with a malformed record, text that is not JSON, or
\* nothing because the file was removed
FileContents(v) == {Doc(<<AreaA(v)>>), Doc(<<AreaA(v), AreaNoName(v)>>), Garbage, Absent}

\* parseable documents of every shape: the path data -> areas leads to a list,
\* a key of the path is missing, the document or the value under "data" is
\* not an object, or the value under "areas" is null
ShapeContents(v) ==
    {Doc(<<AreaA(v)>>),
     JObj(<<>>),
     JObj([data |-> JObj(<<>>)]),
     JArr(<<>>),
     JObj([data |-> JNull]),
     JObj([data |-> JObj([areas |-> JNull])])}

\* rows left in the table by an earlier run of the program
InitTables == {EmptyTable, [x \in {"B"} |-> RowOf(AreaB(0))]}

\* snapshots handed to the reconciler in SpecApply: well-formed ones, one with
\* a repeated id, and malformed ones
PlanSnapshots ==
    {JArr(<<>>), JArr(<<AreaA(1)>>), JArr(<<AreaA(1), AreaC(1)>>), JArr(<<AreaC(2), AreaB(2)>>),
     JArr(<<AreaA(1), [AreaA(2) EXCEPT !.name = "Galley"]>>),
     JArr(<<AreaA(1), AreaNoName(1)>>),
     JArr(<<AreaC(1), [id |-> "A", name |-> None]>>),
     JArr(<<[name |-> "Attic"]>>),
     JNull, JObj(<<>>)}

\* table contents the reconciler starts from in SpecApply
PlanTables ==
    InitTables \cup {[x \in {"A", "B"} |-> IF x = "A" THEN RowOf(AreaA(0)) ELSE RowOf(AreaB(0))]}

\* ------------------------------------------------------------------ state
VARIABLES
    pc,                    \* control location of main, poller and updater
    fileContent,           \* content of AREA_REGISTRY_FILE
    fileMtime,             \* os.path.getmtime(AREA_REGISTRY_FILE)
    writes,                \* number of rewrites of the file so far
    update_queue,          \* the Queue between poller and updater
    db,                    \* committed rows of table area, keyed by id
    txn,                   \* per caller: the open transaction of its connection
    area_data,             \* per caller: the snapshot it holds / applies
    existing_ids,          \* per caller: ids read by SELECT id FROM area
    todel,                 \* per caller: ids the delete loop has yet to visit
    idx,                   \* per caller: position of the upsert loop
    exc,                   \* per caller: the exception caught at line 83
    last_modified_time,    \* poller local
    current_modified_time, \* poller local
    areas,                 \* poller local: the snapshot it read last
    published              \* history: every snapshot put on update_queue, in order

vars == <<pc, fileContent, fileMtime, writes, update_queue, db, txn, area_data,
          existing_ids, todel, idx, exc, last_modified_time, current_modified_time, areas,
          published>>

fileVars == <<fileContent, fileMtime, writes>>
pollVars == <<last_modified_time, current_modified_time, areas, published>>
callVars == <<area_data, existing_ids, todel, idx, exc>>

Callers == {"main", "updater"}
NoTxn == [open |-> FALSE, t |-> EmptyTable]

\* the process is alive: main has neither returned nor died
Alive == pc["main"] \notin {"m_nofile", "m_crashed"}

\* the rows a caller's connection sees
View(p) == IF txn[p].open THEN txn[p].t ELSE db

\* sqlite allows one write transaction at a time
CanWrite(p) == \A q \in Callers \ {p} : ~txn[q].open

\* where update_database_with_new_areas continues after the SELECT / a loop pass
LoopLoc(remaining, i, n) ==
    IF remaining # {} THEN "a_delete" ELSE IF i <= n THEN "a_upsert" ELSE "a_commit"

\* where the caller continues after the call
ReturnLoc(p) == IF p = "main" THEN "m_done" ELSE "u_done"

\* the exception the Python code raises on the snapshot it was given, "none"
\* when the next statement runs: line 51 needs an iterable of records with
\* an id, lines 64-75 a record the table accepts
RaisedBy(loc, view, area_data_, i) ==
    IF loc = "a_select"
    THEN IF ~Iterable(area_data_) THEN "TypeError"
         ELSE IF ~HasIds(area_data_) THEN "KeyError" ELSE "none"
    ELSE IF loc = "a_upsert" THEN UpsertError(view, Items(area_data_)[i])
    ELSE "none"

\* --------------------------------------- update_database_with_new_areas
\* lines 43-51: connect, SELECT id FROM area, current_ids
ApplySelect(p) ==
    /\ Alive /\ pc[p] = "a_select"
    /\ RaisedBy("a_select", View(p), area_data[p], 0) = "none"
    /\ existing_ids' = [existing_ids EXCEPT ![p] = DOMAIN db]
    /\ todel' = [todel EXCEPT ![p] = ToDelete(DOMAIN db, CurrentIds(area_data[p]))]
    /\ idx' = [idx EXCEPT ![p] = 1]
    /\ pc' = [pc EXCEPT ![p] = LoopLoc(todel'[p], 1, Len(Items(area_data[p])))]
    /\ UNCHANGED <<fileVars, pollVars, update_queue, db, txn, area_data, exc>>

\* lines 54-56: one pass of the delete loop
ApplyDelete(p) ==
    /\ Alive /\ pc[p] = "a_delete" /\ CanWrite(p)
    /\ \E id \in todel[p] :
          /\ txn' = [txn EXCEPT ![p] = [open |-> TRUE, t |-> DeleteRow(View(p), id)]]
          /\ todel' = [todel EXCEPT ![p] = todel[p] \ {id}]
    /\ pc' = [pc EXCEPT ![p] = LoopLoc(todel'[p], idx[p], Len(Items(area_data[p])))]
    /\ UNCHANGED <<fileVars, pollVars, update_queue, db, area_data, existing_ids, idx, exc>>

\* lines 59-78: one pass of the upsert loop
ApplyUpsert(p) ==
    /\ Alive /\ pc[p] = "a_upsert" /\ CanWrite(p)
    /\ LET area == Items(area_data[p])[idx[p]] IN
          /\ RaisedBy("a_upsert", View(p), area_data[p], idx[p]) = "none"
          /\ txn' = [txn EXCEPT ![p] = [open |-> TRUE, t |-> InsertOrReplace(View(p), RowOf(area))]]
    /\ idx' = [idx EXCEPT ![p] = idx[p] + 1]
    /\ pc' = [pc EXCEPT ![p] = LoopLoc({}, idx'[p], Len(Items(area_data[p])))]
    /\ UNCHANGED <<fileVars, pollVars, update_queue, db, area_data, existing_ids, todel, exc>>

\* line 51 or lines 64-75 raise on a malformed snapshot, caught at line 83
ApplyRaise(p) ==
    /\ Alive /\ pc[p] \in {"a_select", "a_upsert"}
    /\ LET e == RaisedBy(pc[p], View(p), area_data[p], idx[p]) IN
          /\ e # "none"
          /\ e = "IntegrityError" => CanWrite(p)
          /\ exc' = [exc EXCEPT ![p] = e]
    /\ pc' = [pc EXCEPT ![p] = "a_error"]
    /\ UNCHANGED <<fileVars, pollVars, update_queue, db, txn, area_data, existing_ids, todel, idx>>

\* line 80: conn.commit()
ApplyCommit(p) ==
    /\ Alive /\ pc[p] = "a_commit"
    /\ db' = Committed(db, View(p))
    /\ txn' = [txn EXCEPT ![p] = NoTxn]
    /\ pc' = [pc EXCEPT ![p] = "a_close"]
    /\ UNCHANGED <<fileVars, pollVars, update_queue, callVars>>

\* any sqlite call raises (database is locked, disk I/O error, ...)
ApplyStoreFail(p) ==
    /\ Alive /\ pc[p] \in {"a_select", "a_delete", "a_upsert", "a_commit"}
    /\ exc' = [exc EXCEPT ![p] = "OperationalError"]
    /\ pc' = [pc EXCEPT ![p] = "a_error"]
    /\ UNCHANGED <<fileVars, pollVars, update_queue, db, txn, area_data, existing_ids, todel, idx>>

\* a return that puts the snapshot of a failed call back on the queue
ApplyReturnRequeue(p) ==
    /\ Alive /\ pc[p] \in {"a_close", "a_error"}
    /\ db' = IF pc[p] = "a_error" THEN RolledBack(db, View(p)) ELSE db
    /\ txn' = [txn EXCEPT ![p] = NoTxn]
    /\ existing_ids' = [existing_ids EXCEPT ![p] = {}]
    /\ todel' = [todel EXCEPT ![p] = {}]
    /\ idx' = [idx EXCEPT ![p] = 0]
    /\ exc' = [exc EXCEPT ![p] = "none"]
    /\ pc' = [pc EXCEPT ![p] = ReturnLoc(p)]
    /\ update_queue' = IF pc[p] = "a_error" /\ p = "updater"
                          THEN Append(update_queue, area_data[p]) ELSE update_queue
    /\ UNCHANGED <<fileVars, pollVars, area_data>>

\* lines 81-84: conn.close() after the commit, or the except branch; the
\* function returns and its connection is released
ApplyReturn(p) ==
    /\ Alive /\ pc[p] \in {"a_close", "a_error"}
    /\ db' = IF pc[p] = "a_error" THEN RolledBack(db, View(p)) ELSE db
    /\ txn' = [txn EXCEPT ![p] = NoTxn]
    /\ existing_ids' = [existing_ids EXCEPT ![p] = {}]
    /\ todel' = [todel EXCEPT ![p] = {}]
    /\ idx' = [idx EXCEPT ![p] = 0]
    /\ exc' = [exc EXCEPT ![p] = "none"]
    /\ pc' = [pc EXCEPT ![p] = ReturnLoc(p)]
    /\ UNCHANGED <<fileVars, pollVars, update_queue, area_data>>

\* ------------------------------------------------------------------- main
\* line 124: initialize_database()
MainInitDb ==
    /\ pc["main"] = "m_init"
    /\ pc' = [pc EXCEPT !["main"] = "m_check"]
    /\ UNCHANGED <<fileVars, pollVars, update_queue, db, txn, callVars>>

\* lines 37-39: table creation fails and the exception is raised again
MainInitDbRaise ==
    /\ pc["main"] = "m_init"
    /\ pc' = [pc EXCEPT !["main"] = "m_crashed"]
    /\ UNCHANGED <<fileVars, pollVars, update_queue, db, txn, callVars>>

\* the check without its return statement
MainCheckMissingNoReturn ==
    /\ pc["main"] = "m_check" /\ fileContent = Absent
    /\ pc' = [pc EXCEPT !["main"] = "m_start_poll"]
    /\ UNCHANGED <<fileVars, pollVars, update_queue, db, txn, callVars>>

\* lines 127-129: the registry file is missing, main returns
MainCheckMissing ==
    /\ pc["main"] = "m_check" /\ fileContent = Absent
    /\ pc' = [pc EXCEPT !["main"] = "m_nofile"]
    /\ UNCHANGED <<fileVars, pollVars, update_queue, db, txn, callVars>>

\* line 127: the registry file exists
MainCheckOk ==
    /\ pc["main"] = "m_check" /\ fileContent # Absent
    /\ pc' = [pc EXCEPT !["main"] = "m_start_poll"]
    /\ UNCHANGED <<fileVars, pollVars, update_queue, db, txn, callVars>>

\* lines 132-133: polling_thread.start()
MainStartPoller ==
    /\ pc["main"] = "m_start_poll"
    /\ pc' = [pc EXCEPT !["main"] = "m_start_upd", !["poller"] = "p_stat"]
    /\ UNCHANGED <<fileVars, pollVars, update_queue, db, txn, callVars>>

\* lines 136-137: updater_thread.start()
MainStartUpdater ==
    /\ pc["main"] = "m_start_upd"
    /\ pc' = [pc EXCEPT !["main"] = "m_read", !["updater"] = "u_check"]
    /\ UNCHANGED <<fileVars, pollVars, update_queue, db, txn, callVars>>

\* lines 142-145: initial sync reads the file and calls the reconciler
MainRead ==
    /\ pc["main"] = "m_read"
    /\ ReadAreas(fileContent).ok
    /\ area_data' = [area_data EXCEPT !["main"] = ReadAreas(fileContent).areas]
    /\ pc' = [pc EXCEPT !["main"] = "a_select"]
    /\ UNCHANGED <<fileVars, pollVars, update_queue, db, txn, existing_ids, todel, idx, exc>>

\* lines 142-144 raise; only KeyboardInterrupt is caught, main dies
MainReadRaise ==
    /\ pc["main"] = "m_read"
    /\ ~ReadAreas(fileContent).ok
    /\ pc' = [pc EXCEPT !["main"] = "m_crashed"]
    /\ UNCHANGED <<fileVars, pollVars, update_queue, db, txn, callVars>>

\* line 146: print("Initial database sync completed"), then sleep forever
MainDone ==
    /\ pc["main"] = "m_done"
    /\ pc' = [pc EXCEPT !["main"] = "m_idle"]
    /\ UNCHANGED <<fileVars, pollVars, update_queue, db, txn, callVars>>

\* ------------------------------------------------------ poll_file_changes
\* whether line 95 finds a change
Changed(last, current) == last = NoTime \/ current # last

\* a tick that reads the file whether or not the signal moved
PollStatAlwaysRead ==
    /\ Alive /\ pc["poller"] = "p_stat" /\ fileContent # Absent
    /\ current_modified_time' = fileMtime
    /\ pc' = [pc EXCEPT !["poller"] = "p_read"]
    /\ UNCHANGED <<fileVars, update_queue, db, txn, callVars, last_modified_time, areas,
                   published>>

\* lines 92-95: getmtime and the comparison
PollStat ==
    /\ Alive /\ pc["poller"] = "p_stat" /\ fileContent # Absent
    /\ current_modified_time' = fileMtime
    /\ pc' = [pc EXCEPT !["poller"] =
                 IF Changed(last_modified_time, fileMtime) THEN "p_read" ELSE "p_sleep"]
    /\ UNCHANGED <<fileVars, update_queue, db, txn, callVars, last_modified_time, areas,
                   published>>

\* line 92 raises: the file cannot be stat-ed
PollStatRaise ==
    /\ Alive /\ pc["poller"] = "p_stat" /\ fileContent = Absent
    /\ pc' = [pc EXCEPT !["poller"] = "p_sleep"]
    /\ UNCHANGED <<fileVars, pollVars, update_queue, db, txn, callVars>>

\* lines 97-99: read and parse the file
PollRead ==
    /\ Alive /\ pc["poller"] = "p_read"
    /\ ReadAreas(fileContent).ok
    /\ areas' = ReadAreas(fileContent).areas
    /\ pc' = [pc EXCEPT !["poller"] = "p_put"]
    /\ UNCHANGED <<fileVars, update_queue, db, txn, callVars, last_modified_time,
                   current_modified_time, published>>

\* a handler that marks the change as observed although the read failed
PollReadRaiseAdvance ==
    /\ Alive /\ pc["poller"] = "p_read"
    /\ ~ReadAreas(fileContent).ok
    /\ last_modified_time' = current_modified_time
    /\ pc' = [pc EXCEPT !["poller"] = "p_sleep"]
    /\ UNCHANGED <<fileVars, update_queue, db, txn, callVars, current_modified_time, areas,
                   published>>

\* lines 97-99 raise, caught at line 107
PollReadRaise ==
    /\ Alive /\ pc["poller"] = "p_read"
    /\ ~ReadAreas(fileContent).ok
    /\ pc' = [pc EXCEPT !["poller"] = "p_sleep"]
    /\ UNCHANGED <<fileVars, pollVars, update_queue, db, txn, callVars>>

\* a publish that records the signal the file has now, not the one this
\* tick observed before reading
PollPutRestat ==
    /\ Alive /\ pc["poller"] = "p_put"
    /\ update_queue' = Append(update_queue, areas)
    /\ published' = Append(published, areas)
    /\ last_modified_time' = fileMtime
    /\ pc' = [pc EXCEPT !["poller"] = "p_sleep"]
    /\ UNCHANGED <<fileVars, db, txn, callVars, current_modified_time, areas>>

\* lines 102-105: publish and remember the signal
PollPut ==
    /\ Alive /\ pc["poller"] = "p_put"
    /\ update_queue' = Append(update_queue, areas)
    /\ published' = Append(published, areas)
    /\ last_modified_time' = current_modified_time
    /\ pc' = [pc EXCEPT !["poller"] = "p_sleep"]
    /\ UNCHANGED <<fileVars, db, txn, callVars, current_modified_time, areas>>

\* line 111: time.sleep(5)
PollSleep ==
    /\ Alive /\ pc["poller"] = "p_sleep"
    /\ pc' = [pc EXCEPT !["poller"] = "p_stat"]
    /\ UNCHANGED <<fileVars, pollVars, update_queue, db, txn, callVars>>

\* ------------------------------------------------------- database_updater
\* lines 116-118: the queue holds a snapshot; take it and reconcile
UpdGet ==
    /\ Alive /\ pc["updater"] = "u_check" /\ update_queue # <<>>
    /\ area_data' = [area_data EXCEPT !["updater"] = Head(update_queue)]
    /\ update_queue' = Tail(update_queue)
    /\ pc' = [pc EXCEPT !["updater"] = "a_select"]
    /\ UNCHANGED <<fileVars, pollVars, db, txn, existing_ids, todel, idx, exc>>

\* line 116: the queue is empty
UpdIdle ==
    /\ Alive /\ pc["updater"] = "u_check" /\ update_queue = <<>>
    /\ pc' = [pc EXCEPT !["updater"] = "u_sleep"]
    /\ UNCHANGED <<fileVars, pollVars, update_queue, db, txn, callVars>>

\* line 119: print("Database update completed successfully")
UpdDone ==
    /\ Alive /\ pc["updater"] = "u_done"
    /\ pc' = [pc EXCEPT !["updater"] = "u_sleep"]
    /\ UNCHANGED <<fileVars, pollVars, update_queue, db, txn, callVars>>

\* line 120: time.sleep(1)
UpdSleep ==
    /\ Alive /\ pc["updater"] = "u_sleep"
    /\ pc' = [pc EXCEPT !["updater"] = "u_check"]
    /\ UNCHANGED <<fileVars, pollVars, update_queue, db, txn, callVars>>

\* ------------------------------------------------- the registry's writer
\* the file is rewritten (or removed) and its modification time moves on
WriteFile(contents) ==
    /\ Alive /\ pc["main"] \notin {"m_init", "m_check"}
    /\ writes < MaxWrites
    /\ writes' = writes + 1
    /\ fileContent' \in contents
    /\ fileMtime' = fileMtime + 1
    /\ UNCHANGED <<pc, pollVars, update_queue, db, txn, callVars>>

\* ---------------------------------------------------------- specification
InitWith(contents) ==
    /\ pc = [main |-> "m_init", poller |-> "off", updater |-> "off"]
    /\ fileContent \in contents
    /\ fileMtime = 1
    /\ writes = 0
    /\ update_queue = <<>>
    /\ db \in InitTables
    /\ txn = [p \in Callers |-> NoTxn]
    /\ area_data = [p \in Callers |-> Unset]
    /\ existing_ids = [p \in Callers |-> {}]
    /\ todel = [p \in Callers |-> {}]
    /\ idx = [p \in Callers |-> 0]
    /\ exc = [p \in Callers |-> "none"]
    /\ last_modified_time = NoTime
    /\ current_modified_time = NoTime
    /\ areas = Unset
    /\ published = <<>>

Init == InitWith(FileContents(1))

Next ==
    \/ MainInitDb \/ MainInitDbRaise \/ MainCheckMissing \/ MainCheckOk
    \/ MainStartPoller \/ MainStartUpdater \/ MainRead \/ MainReadRaise \/ MainDone
    \/ PollStat \/ PollStatRaise \/ PollRead \/ PollReadRaise \/ PollPut \/ PollSleep
    \/ UpdGet \/ UpdIdle \/ UpdDone \/ UpdSleep
    \/ \E p \in Callers : ApplySelect(p)
    \/ \E p \in Callers : ApplyDelete(p)
    \/ \E p \in Callers : ApplyUpsert(p)
    \/ \E p \in Callers : ApplyRaise(p)
    \/ \E p \in Callers : ApplyCommit(p)
    \/ \E p \in Callers : ApplyStoreFail(p)
    \/ \E p \in Callers : ApplyReturn(p)
    \/ WriteFile(FileContents(writes + 2))

Spec == Init /\ [][Next]_vars

\* ------------------------------------------- the reconciler on its own
\* database_updater drains a queue of arbitrary snapshots into an arbitrary
\* table; nothing else runs
Plans == UNION {[1..n -> PlanSnapshots] : n \in 0..MaxPlan}

InitApply ==
    /\ pc = [main |-> "m_idle", poller |-> "off", updater |-> "u_check"]
    /\ fileContent = Doc(<<>>)
    /\ fileMtime = 1
    /\ writes = 0
    /\ update_queue \in Plans
    /\ db \in PlanTables
    /\ txn = [p \in Callers |-> NoTxn]
    /\ area_data = [p \in Callers |-> Unset]
    /\ existing_ids = [p \in Callers |-> {}]
    /\ todel = [p \in Callers |-> {}]
    /\ idx = [p \in Callers |-> 0]
    /\ exc = [p \in Callers |-> "none"]
    /\ last_modified_time = NoTime
    /\ current_modified_time = NoTime
    /\ areas = Unset
    /\ published = <<>>

NextApply ==
    \/ UpdGet \/ UpdIdle \/ UpdDone \/ UpdSleep
    \/ ApplySelect("updater") \/ ApplyDelete("updater") \/ ApplyUpsert("updater")
    \/ ApplyRaise("updater") \/ ApplyCommit("updater") \/ ApplyStoreFail("updater")
    \/ ApplyReturn("updater")

SpecApply == InitApply /\ [][NextApply]_vars

\* ------------------------------- no failures, fair scheduling of the threads
MainStep ==
    \/ MainInitDb \/ MainCheckOk \/ MainStartPoller \/ MainStartUpdater \/ MainRead \/ MainDone
    \/ ApplySelect("main") \/ ApplyDelete("main") \/ ApplyUpsert("main")
    \/ ApplyCommit("main") \/ ApplyReturn("main")

PollerStep == PollStat \/ PollRead \/ PollPut \/ PollSleep

UpdaterStep ==
    \/ UpdGet \/ UpdIdle \/ UpdDone \/ UpdSleep
    \/ ApplySelect("updater") \/ ApplyDelete("updater") \/ ApplyUpsert("updater")
    \/ ApplyCommit("updater") \/ ApplyReturn("updater")

InitLive == InitWith(GoodContents(1))

NextLive == MainStep \/ PollerStep \/ UpdaterStep \/ WriteFile(GoodContents(writes + 2))

SpecLive ==
    /\ InitLive /\ [][NextLive]_vars
    /\ WF_vars(MainStep) /\ WF_vars(PollerStep) /\ WF_vars(UpdaterStep)

\* ------------------------------------------------------------- properties
\* a snapshot the reconciler can apply without raising
WellFormed(snapshot) ==
    /\ Iterable(snapshot) /\ HasIds(snapshot)
    /\ \A i \in 1..Len(Items(snapshot)) :
          "name" \in DOMAIN Items(snapshot)[i] /\ Items(snapshot)[i].name # None

UniqueIds(snapshot) ==
    \A i, j \in 1..Len(Items(snapshot)) :
        Items(snapshot)[i].id = Items(snapshot)[j].id => i = j

\* the table that mirrors a snapshot: one row per id, taken from the last
\* record carrying that id
TableOf(snapshot) ==
    [x \in CurrentIds(snapshot) |->
        LET last == CHOOSE i \in 1..Len(Items(snapshot)) :
                        /\ Items(snapshot)[i].id = x
                        /\ \A j \in (i + 1)..Len(Items(snapshot)) : Items(snapshot)[j].id # x
        IN RowOf(Items(snapshot)[last])]

\* locations inside update_database_with_new_areas
CallLocs == {"a_select", "a_delete", "a_upsert", "a_commit", "a_close", "a_error"}

\* the step is conn.commit() of caller p
CommitStep(p) == pc[p] = "a_commit" /\ pc'[p] = "a_close"

\* C1 Convergence: when the reconciler, run on its own, has committed a
\* snapshot with unique ids, the table holds exactly the snapshot's ids and
\* each row holds the fields of the record with that id, whatever the table
\* held before and whatever snapshots were applied before.
C1_Convergence ==
    \A p \in Callers :
        (pc[p] = "a_close" /\ UniqueIds(area_data[p])) => db = TableOf(area_data[p])

\* the spec's example: the table held A and B, the snapshot is [A, C]
C1_Witness ==
    /\ pc["updater"] = "a_close"
    /\ existing_ids["updater"] = {"A", "B"}
    /\ area_data["updater"] = JArr(<<AreaA(1), AreaC(1)>>)
    /\ DOMAIN db = {"A", "C"}
    /\ db["A"].name = "Kitchen" /\ db["C"].aliases = "[\"shop\"]"
    /\ update_queue = <<>>

\* C9 Idempotence: while the reconciler applies a well-formed snapshot to a
\* table that already mirrors it (the result of applying it once), no step
\* changes the committed table and the code raises nothing.
C9_Idempotence ==
    [][\A p \in Callers :
          (pc[p] \in CallLocs /\ WellFormed(area_data[p]) /\ db = TableOf(area_data[p]))
              => /\ db' = db
                 /\ pc'[p] = "a_error" => exc'[p] = "OperationalError"]_vars

\* the second apply of [A, C] is about to commit
C9_Witness ==
    /\ pc["updater"] = "a_commit"
    /\ area_data["updater"] = JArr(<<AreaA(1), AreaC(1)>>)
    /\ db = TableOf(area_data["updater"])
    /\ txn["updater"].open /\ txn["updater"].t = db
    /\ existing_ids["updater"] = {"A", "C"}

\* C10 Deletion correctness: after a commit, every id the call read from the
\* table that is not in the snapshot has no row, and every id of the snapshot
\* has one.
C10_DeletionCorrect ==
    [][\A p \in Callers :
          CommitStep(p) =>
              /\ \A x \in existing_ids[p] \ CurrentIds(area_data[p]) : x \notin DOMAIN db'
              /\ \A x \in CurrentIds(area_data[p]) : x \in DOMAIN db']_vars

\* a call that found a stale row has committed
C10_Witness ==
    \E p \in Callers :
        /\ pc[p] = "a_close"
        /\ "B" \in existing_ids[p] /\ "B" \notin CurrentIds(area_data[p])
        /\ CurrentIds(area_data[p]) # {}
        /\ DOMAIN db = CurrentIds(area_data[p])

\* C6 All-or-nothing: the committed table changes only in a conn.commit()
\* step, and when a call that raised returns, its transaction is gone; so a
\* call that fails at any step leaves the committed table as it found it.
C6_AllOrNothing ==
    [][/\ db' # db => \E p \in Callers : CommitStep(p)
       /\ \A p \in Callers :
             (pc[p] = "a_error" /\ pc'[p] # "a_error") => (db' = db /\ txn'[p] = NoTxn)]_vars

\* a record without a name was met after the upsert of another record
C6_Witness ==
    \E p \in Callers :
        /\ pc[p] = "a_error" /\ exc[p] = "KeyError"
        /\ idx[p] = 2
        /\ txn[p].open /\ txn[p].t # db

\* C8 At-least-once detection: a failed read publishes nothing and keeps
\* last_modified_time; last_modified_time only ever changes in the step that
\* puts the snapshot read for that signal on the queue; and a tick that finds
\* the signal unset or changed goes on to read the file.
C8_AtLeastOnce ==
    [][/\ (pc["poller"] = "p_read" /\ pc'["poller"] = "p_sleep")
           => (update_queue' = update_queue /\ last_modified_time' = last_modified_time)
       /\ last_modified_time' # last_modified_time
           => /\ update_queue' = Append(update_queue, areas)
              /\ last_modified_time' = current_modified_time
       /\ (pc["poller"] = "p_stat" /\ pc'["poller"] # "p_stat" /\ fileContent # Absent
             /\ Changed(last_modified_time, fileMtime))
           => pc'["poller"] = "p_read"]_vars

\* the poller saw the signal move from 1 to 2, the read failed, and the
\* change is still unobserved
C8_Witness ==
    /\ pc["poller"] = "p_sleep"
    /\ last_modified_time = 1 /\ current_modified_time = 2 /\ fileMtime = 2
    /\ fileContent = Garbage
    /\ Len(published) = 1

\* C3 Mutual exclusion of reconciliation: at most one caller is inside
\* update_database_with_new_areas.
C3_MutualExclusion == Cardinality({p \in Callers : pc[p] \in CallLocs}) <= 1

\* C4 Initial sync precedes detection: until the initial sync of main has
\* returned, the poller has made no observation of the file and the updater
\* is not applying a snapshot.
C4_InitialSyncFirst ==
    pc["main"] \in {"m_init", "m_check", "m_start_poll", "m_start_upd", "m_read"} \cup CallLocs
        => /\ pc["poller"] \in {"off", "p_stat"} /\ current_modified_time = NoTime
           /\ pc["updater"] \notin CallLocs

\* C5 Ready implies consistent: when main is about to report the initial sync
\* as completed, the table mirrors the snapshot the initial sync read.
C5_ReadyConsistent ==
    pc["main"] = "m_done"
        => WellFormed(area_data["main"]) /\ db = TableOf(area_data["main"])

\* the number of snapshots the updater has taken from the queue
Dequeued == Len(published) - Len(update_queue)

\* the updater has taken the j-th published snapshot and its call has ended
HandledByUpdater(j) ==
    \/ j < Dequeued
    \/ j = Dequeued /\ pc["updater"] \notin {"a_select", "a_delete", "a_upsert", "a_commit"}

\* C2 Order preservation: the updater takes the published snapshots in publish
\* order, and once the updater has handled a published snapshot and the table
\* mirrors it, the table never goes back to mirroring a snapshot published
\* before it.
C2_OrderPreserved ==
    [][/\ (pc["updater"] = "u_check" /\ pc'["updater"] = "a_select")
           => area_data'["updater"] = published[Dequeued + 1]
       /\ \A i, j \in 1..Len(published) :
             (i < j /\ WellFormed(published[i]) /\ WellFormed(published[j])
                /\ HandledByUpdater(j)
                /\ db = TableOf(published[j]) /\ db' = TableOf(published[i]))
                 => db' = db]_vars

\* C7 Eventual synchronisation: with no failing read or store operation, a
\* file that is rewritten finitely often and fair scheduling of the three
\* threads, the table eventually mirrors the file and keeps doing so.
C7_EventuallySynced == <>[](db = TableOf(ReadAreas(fileContent).areas))

\* C11 Empty-collection tolerance: while the reconciler, run on its own,
\* applies a snapshot with zero records, the code raises nothing (only a
\* failing sqlite call can end the call early), and its commit leaves the
\* table empty whatever rows the table held.
C11_EmptySnapshot ==
    [][\A p \in Callers :
          (pc[p] \in CallLocs /\ area_data[p] = JArr(<<>>))
              => /\ pc'[p] = "a_error" => exc'[p] = "OperationalError"
                 /\ CommitStep(p) => db' = EmptyTable
                 /\ pc[p] = "a_close" => db = EmptyTable /\ db' = EmptyTable]_vars

\* the empty snapshot was applied to a table that held A and B
C11_Witness ==
    /\ pc["updater"] = "a_close"
    /\ area_data["updater"] = JArr(<<>>)
    /\ existing_ids["updater"] = {"A", "B"}
    /\ db = EmptyTable

\* ------------------------- documents of every shape, no failing sqlite call
InitShape == InitWith(ShapeContents(1))

NextShape ==
    \/ MainInitDb \/ MainCheckOk \/ MainStartPoller \/ MainStartUpdater
    \/ MainRead \/ MainReadRaise \/ MainDone
    \/ PollStat \/ PollRead \/ PollReadRaise \/ PollPut \/ PollSleep
    \/ UpdGet \/ UpdIdle \/ UpdDone \/ UpdSleep
    \/ \E p \in Callers : ApplySelect(p)
    \/ \E p \in Callers : ApplyDelete(p)
    \/ \E p \in Callers : ApplyUpsert(p)
    \/ \E p \in Callers : ApplyRaise(p)
    \/ \E p \in Callers : ApplyCommit(p)
    \/ \E p \in Callers : ApplyReturn(p)
    \/ WriteFile(ShapeContents(writes + 2))

SpecShape == InitShape /\ [][NextShape]_vars

\* json.load accepts the file's text
Parseable(content) == content.k \notin {"absent", "garbage"}

\* the path data -> areas of the document leads to a list
LeadsToList(content) ==
    /\ content.k = "obj"
    /\ "data" \in DOMAIN content.v /\ content.v.data.k = "obj"
    /\ "areas" \in DOMAIN content.v.data.v /\ content.v.data.v.areas.k = "arr"

\* C12 Reader tolerance of document shape: when the poller's read or the
\* initial sync's read meets a parseable document whose path data -> areas
\* does not lead to a list, the read does not raise and yields the empty list.
C12_ReaderTolerant ==
    [][/\ (pc["poller"] = "p_read" /\ pc'["poller"] # "p_read"
             /\ Parseable(fileContent) /\ ~LeadsToList(fileContent))
           => (pc'["poller"] = "p_put" /\ areas' = JArr(<<>>))
       /\ (pc["main"] = "m_read" /\ pc'["main"] # "m_read"
             /\ Parseable(fileContent) /\ ~LeadsToList(fileContent))
           => (pc'["main"] = "a_select" /\ area_data'["main"] = JArr(<<>>))]_vars

\* C13 Workers survive errors: after a tick of the poller that failed (its
\* stat or its read raised, so the signal it saw is still unrecorded) the
\* poller can go on to its next tick, and after a reconciliation of the
\* updater that raised the updater can return to its loop.
C13_WorkersSurvive ==
    /\ (pc["poller"] = "p_sleep" /\ Changed(last_modified_time, current_modified_time))
           => ENABLED PollSleep
    /\ pc["updater"] = "a_error" => ENABLED ApplyReturn("updater")

\* C14 Only the precondition check terminates: once initialize_database has
\* returned, the process ends on its own only in the existence check of
\* lines 127-129, with the registry file absent.
C14_OnlyPreconditionEnds ==
    [][(Alive /\ ~Alive' /\ pc["main"] # "m_init")
          => (pc["main"] = "m_check" /\ fileContent = Absent)]_vars

\* C15 Fatal precondition: with the registry file absent at the existence
\* check main returns; when it has returned neither thread was started,
\* nothing was published or queued, no reconciliation was begun, and no step
\* up to and after the return changes the table.
C15_FatalPrecondition ==
    [][/\ (pc["main"] = "m_check" /\ fileContent = Absent /\ pc'["main"] # "m_check")
           => pc'["main"] = "m_nofile"
       /\ pc'["main"] = "m_nofile"
           => /\ pc'["poller"] = "off" /\ pc'["updater"] = "off"
              /\ published' = <<>> /\ update_queue' = <<>>
              /\ \A p \in Callers : area_data'[p] = Unset /\ ~txn'[p].open
              /\ db' = db
       /\ pc["main"] \in {"m_init", "m_check"} => db' = db]_vars

\* main has returned at line 129 and the table still holds its old row
C15_Witness ==
    /\ pc["main"] = "m_nofile" /\ fileContent = Absent
    /\ db = [x \in {"B"} |-> RowOf(AreaB(0))]

\* C16 No mixed state: the committed table always equals the initial
\* contents or the complete record set of one single snapshot among those
\* handed to the reconciler (the published ones and the one the initial sync
\* read); it never combines rows of two snapshots.
C16_NoMixedState ==
    \/ db \in InitTables
    \/ \E i \in 1..Len(published) : db = TableOf(published[i])
    \/ area_data["main"] # Unset /\ db = TableOf(area_data["main"])

\* a step of poll_file_changes
PollerMoves == pc["poller"] # "off" /\ pc'["poller"] # pc["poller"]

\* C17 Publish condition of the detector: a tick that finds
\* last_modified_time set and equal to the file's signal goes to sleep without
\* reading, publishing or touching last_modified_time; a tick that finds it
\* unset or different reads the file, and when the read succeeds the next
\* step appends exactly that one snapshot to update_queue and sets
\* last_modified_time to the signal this tick observed. No step of the
\* detector changes the table or a transaction.
C17_PublishCondition ==
    [][PollerMoves =>
          /\ (pc["poller"] = "p_stat" /\ fileContent # Absent
                /\ last_modified_time # NoTime /\ last_modified_time = fileMtime)
              => /\ pc'["poller"] = "p_sleep"
                 /\ UNCHANGED <<update_queue, published, last_modified_time, areas>>
          /\ (pc["poller"] = "p_stat" /\ fileContent # Absent
                /\ (last_modified_time = NoTime \/ last_modified_time # fileMtime))
              => /\ pc'["poller"] = "p_read" /\ current_modified_time' = fileMtime
                 /\ UNCHANGED <<update_queue, published, last_modified_time>>
          /\ (pc["poller"] = "p_read" /\ ReadAreas(fileContent).ok)
              => /\ pc'["poller"] = "p_put" /\ areas' = ReadAreas(fileContent).areas
                 /\ UNCHANGED <<update_queue, published, last_modified_time>>
          /\ pc["poller"] = "p_put"
              => /\ update_queue' = Append(update_queue, areas)
                 /\ Len(update_queue') = Len(update_queue) + 1
                 /\ last_modified_time' = current_modified_time
                 /\ pc'["poller"] = "p_sleep"
          /\ db' = db /\ txn' = txn]_vars

\* the detector has published twice, the second time after it found the
\* signal of the rewritten file
C17_Witness ==
    /\ pc["poller"] = "p_sleep"
    /\ Len(published) = 2 /\ published[1] # published[2]
    /\ last_modified_time = 2 /\ current_modified_time = 2 /\ fileMtime = 2

\* nothing is queued or being applied and the detector has recorded the
\* file's current signal
Quiescent ==
    /\ pc["main"] = "m_idle" /\ pc["updater"] \notin CallLocs
    /\ update_queue = <<>>
    /\ pc["poller"] \in {"p_stat", "p_sleep"} /\ last_modified_time = fileMtime

\* C18 No automatic requeue: update_queue changes only when the updater takes
\* its head or the detector appends the snapshot it just read; when a failed
\* reconciliation of the updater returns, the queue and the table are as
\* they were; and once nothing is queued or being applied and the detector
\* has recorded the file's signal, the table does not change and no
\* reconciliation starts until the file is modified again.
C18_NoRequeue ==
    [][/\ update_queue' # update_queue
           => \/ /\ pc["updater"] = "u_check" /\ pc'["updater"] = "a_select"
                 /\ update_queue' = Tail(update_queue)
              \/ /\ pc["poller"] = "p_put" /\ pc'["poller"] = "p_sleep"
                 /\ update_queue' = Append(update_queue, areas)
       /\ (pc["updater"] = "a_error" /\ pc'["updater"] # "a_error")
           => (pc'["updater"] = "u_done" /\ update_queue' = update_queue /\ db' = db)
       /\ (Quiescent /\ fileMtime' = fileMtime) => (Quiescent' /\ db' = db)]_vars

\* the updater's reconciliation of the file's current snapshot has failed
\* with a store error, the table does not mirror the file, and nothing else
\* is queued or pending
C18_Witness ==
    /\ pc["updater"] = "a_error" /\ exc["updater"] = "OperationalError"
    /\ WellFormed(area_data["updater"])
    /\ ReadAreas(fileContent).ok /\ area_data["updater"] = ReadAreas(fileContent).areas
    /\ db # TableOf(area_data["updater"])
    /\ pc["main"] = "m_idle" /\ update_queue = <<>>
    /\ pc["poller"] \in {"p_stat", "p_sleep"} /\ last_modified_time = fileMtime

\* every row of the table is stored under its own id
KeyedById(table) == \A x \in DOMAIN table : table[x].id = x

\* C19 Duplicate ids in one snapshot: the committed table and every open
\* transaction hold each row under its own id, hence one row per id; and when
\* the reconciler has committed a snapshot that repeats an id, the row of
\* each id holds the fields of the last record of the snapshot with that id.
C19_DuplicateIds ==
    /\ KeyedById(db)
    /\ \A p \in Callers : KeyedById(txn[p].t)
    /\ \A p \in Callers :
          (pc[p] = "a_close" /\ ~UniqueIds(area_data[p]))
              => /\ Cardinality(DOMAIN db) = Cardinality(CurrentIds(area_data[p]))
                 /\ \A i \in 1..Len(Items(area_data[p])) :
                       (\A j \in (i + 1)..Len(Items(area_data[p])) :
                            Items(area_data[p])[j].id # Items(area_data[p])[i].id)
                           => /\ Items(area_data[p])[i].id \in DOMAIN db
                              /\ db[Items(area_data[p])[i].id] = RowOf(Items(area_data[p])[i])

\* the snapshot held id A twice, as Kitchen and then as Galley
C19_Witness ==
    /\ pc["updater"] = "a_close"
    /\ Len(Items(area_data["updater"])) = 2
    /\ Items(area_data["updater"])[1].id = "A" /\ Items(area_data["updater"])[2].id = "A"
    /\ DOMAIN db = {"A"}
    /\ db["A"].name = "Galley" /\ db["A"].modified_at = "t2"

\* C20 Signal/content coherence of the detector: the recorded signal never
\* runs ahead of the file's; whenever last_modified_time equals the file's
\* signal, the snapshot published last is the one the file holds now; and a
\* snapshot about to be published differs from the file's content only when
\* the signal observed on this tick is no longer the file's, so the next tick
\* finds a change and publishes again.
C20_SignalCoherent ==
    /\ last_modified_time <= fileMtime
    /\ (last_modified_time # NoTime /\ last_modified_time = fileMtime)
           => /\ published # <<>> /\ ReadAreas(fileContent).ok
              /\ published[Len(published)] = ReadAreas(fileContent).areas
    /\ (pc["poller"] = "p_put" /\ current_modified_time = fileMtime)
           => (ReadAreas(fileContent).ok /\ areas = ReadAreas(fileContent).areas)

\* the file was rewritten between getmtime and the read of the first tick:
\* the new content was published under the old signal and once more on the
\* next tick
C20_Witness ==
    /\ writes = 1 /\ fileMtime = 2 /\ last_modified_time = 2
    /\ Len(published) = 2 /\ published[1] = published[2]
    /\ ReadAreas(fileContent).ok /\ published[2] = ReadAreas(fileContent).areas

====
